---- MODULE Spec2Model ----
(***************************************************************************)
(* Model of shvbrokertestingdevice (src/src/main.rs): a device exposing    *)
(* two nodes, state/number (AtomicI32) and state/text (RwLock<String>),    *)
(* each with a "get" and a "set" method; "set" emits a chng signal when    *)
(* the value it compared against differs from its parameter.               *)
(*                                                                         *)
(* Every request is handled by its own task; tasks interleave at every     *)
(* access to shared state (atomic load, atomic store, lock acquisition,    *)
(* send on the outbound channel).                                          *)
(*                                                                         *)
(* A String in memory is written in two parts (lo, hi): a reader that      *)
(* copied it in the middle of a write would obtain the value Torn.         *)
(***************************************************************************)
EXTENDS Integers, Sequences, FiniteSets, TLC

VARIABLES
    number,     \* State.number: AtomicI32
    text,       \* State.text: the String behind the RwLock, as [lo, hi]
    readers,    \* tasks holding a read guard of State.text
    writer,     \* task holding the write guard of State.text, or NoTask
    signals,    \* every send_message call so far, in order
    calls,      \* number of requests dispatched so far
    pc,         \* per task: position in its handler
    req,        \* per task: the request it handles
    result,     \* per task: the handler's result
    old,        \* per task: value stored just before the task's own write
    solo,       \* per task: no other set on the same node since dispatch
    before,     \* per task: value stored in the node when the call was dispatched
    mark,       \* per task: number of the node's signals when the call was dispatched
    pred,       \* per task: the set completed just before, if run back to back
    lastDone,   \* per node: the set that completed last, if it ran alone
    written,    \* per node: the values stored so far (and the initial one)
    seen,       \* per task: the stored value its set compared its parameter with
    lastLock    \* parameter of the set that acquired the write guard last

taskVars  == <<pc, req, result>>
ghostVars == <<old, solo, before, mark, pred, lastDone, written>>
raceVars  == <<seen, lastLock>>
vars == <<number, text, readers, writer, signals, calls,
          pc, req, result, old, solo, before, mark, pred, lastDone, written,
          seen, lastLock>>

---------------------------------------------------------------------------
(* Bounds *)

NTasks   == 2
MaxCalls == 2

Tasks  == 1..NTasks
NoTask == 0

---------------------------------------------------------------------------
(* RpcValue, results *)

IntV(n)  == <<"int", n>>
\* An integer on the wire that lies outside the i32 range; n only tells such
\* values apart (the model checker's own integers are 32 bits wide).
WideV(n) == <<"wide", n>>
StrV(s)  == <<"str", s>>
BoolV(b) == <<"bool", b>>
NullV    == <<"null">>

Ok(v)    == <<"ok", v>>
Err(e)   == <<"err", e>>
NoResult == <<"none">>
NoCall   == <<"none">>

---------------------------------------------------------------------------
(* Mount table and method tables *)

NUMBER_MOUNT == "state/number"
TEXT_MOUNT   == "state/text"
SIG_CHNG     == "chng"

Mounts == {NUMBER_MOUNT, TEXT_MOUNT}

MethodNames_reset(path) == {"get", "set", "reset"}

MethodNames(path) == {"get", "set"}

RequiredAccess_read(path, method) == "Read"

RequiredAccess_write(path, method) == "Write"

RequiredAccess(path, method) ==
    IF method = "get" THEN "Read" ELSE "Write"

ParamType_i64(path, method) ==
    IF method = "get" THEN "none"
    ELSE IF path = NUMBER_MOUNT THEN "i64" ELSE "String"

ParamType(path, method) ==
    IF method = "get" THEN "none"
    ELSE IF path = NUMBER_MOUNT THEN "i32" ELSE "String"

AccessRank(a) ==
    CASE a = "Browse" -> 1
      [] a = "Read"   -> 8
      [] a = "Write"  -> 16

Decodes(ty, p) ==
    CASE ty = "none"   -> TRUE
      [] ty = "i32"    -> p[1] = "int"
      [] ty = "i64"    -> p[1] \in {"int", "wide"}
      [] ty = "String" -> p[1] = "str"

\* Outcome of dispatching request r: an error, or "invoke" (the handler body runs).
Resolve(r) ==
    IF r.path \notin Mounts THEN "MethodNotFound"
    ELSE IF r.method \notin MethodNames(r.path) THEN "MethodNotFound"
    ELSE IF AccessRank(r.access) < AccessRank(RequiredAccess(r.path, r.method))
         THEN "PermissionDenied"
    ELSE IF ~Decodes(ParamType(r.path, r.method), r.param) THEN "InvalidParameter"
    ELSE "invoke"

---------------------------------------------------------------------------
(* Inputs *)

Numbers  == {0, 1, 2}
Strings  == {"", "a", "b"}
Torn     == "<torn>"

Levels == {"Browse", "Read", "Write"}

\* Parameters a caller may send to node f: every value of the node's type, and
\* one value of every other kind.
ParamsFor(f) ==
    IF f = NUMBER_MOUNT
    THEN {IntV(n) : n \in Numbers} \cup {WideV(1), StrV("a"), NullV}
    ELSE {StrV(s) : s \in Strings} \cup {IntV(1), NullV}

Requests ==
    \* calls of the two methods of the mounted nodes
    UNION {[path : {f}, method : {"set"}, param : ParamsFor(f),
            access : {"Write"}] : f \in Mounts}
    \* the same method called with too low a capability, with a parameter of
    \* the node's type and with one of the other node's type
    \cup [path : Mounts, method : {"set"}, param : {IntV(1), StrV("a")},
          access : {"Read"}]
    \cup [path : Mounts, method : {"get"}, param : {NullV},
          access : Levels \ {"Write"}]
    \* a method no node has
    \cup [path : Mounts, method : {"reset"}, param : {NullV}, access : {"Browse", "Write"}]
    \* a path nothing is mounted on
    \cup [path : {"state/other"}, method : {"get", "set"}, param : {NullV},
          access : {"Write"}]

NoReq == [path |-> "", method |-> "", param |-> NullV, access |-> "Browse"]

---------------------------------------------------------------------------
(* Shared state primitives *)

\* A String in memory; whole when both parts belong to the same value.
Mem(s) == [lo |-> s, hi |-> s]

\* Copying the String out of memory.
ReadString(m) == IF m.lo = m.hi THEN m.lo ELSE Torn

\* async_std::sync::RwLock
CanRead_anytime(w, rs) == TRUE

CanRead(w, rs) == w = NoTask

CanWrite_ignoreReaders(w, rs) == w = NoTask

CanWrite_ignoreWriter(w, rs) == rs = {}

CanWrite(w, rs) == w = NoTask /\ rs = {}

\* The read guard of "get" is a temporary bound by `let s = &*...`: it lives to
\* the end of the block and is dropped when the handler returns.
ReadersAfterGet_kept(rs, t) == rs

ReadersAfterGet(rs, t) == rs \ {t}

\* The read guard of "set" is a temporary of the `if` condition: it is dropped
\* when the condition has been evaluated, before the block is entered.
ReadersAfterCompare_kept(rs, t) == rs

ReadersAfterCompare(rs, t) == rs \ {t}

\* The write guard of "set" is bound by `let mut writer`: after the store it is
\* still held, until the end of the block.
GuardAfterStore_dropped(t) == NoTask

GuardAfterStore(t) == t

\* State of the outbound channel at the time of a send, as the session runtime
\* left it.
ChanStates == {"open", "full", "closed"}

\* client_cmd_tx.send_message: never suspends; fails unless the channel accepts.
SendOk(c) == c = "open"

\* RpcMessage::new_signal(path, SIG_CHNG, Some(param.into())), with what became
\* of it (ok) and the value the emitting call overwrote (prev).
Signal_numberPath(path, v, prev, saw, c) ==
    [path |-> NUMBER_MOUNT, name |-> SIG_CHNG, value |-> v, prev |-> prev,
     saw |-> saw, ok |-> SendOk(c)]

\* prev and saw are history: the value the emitter overwrote and the value it
\* had compared its parameter with.
Signal(path, v, prev, saw, c) ==
    [path |-> path, name |-> SIG_CHNG, value |-> v, prev |-> prev,
     saw |-> saw, ok |-> SendOk(c)]

NumberDiffers_always(stored, param) == TRUE

NumberDiffers(stored, param) == stored # param

TextDiffers_always(stored, param) == TRUE

TextDiffers(stored, param) == stored # param

StoreValue_keep(param, stored) == stored

StoreValue(param, stored) == param

SetReply_changed(changed, sent) == Ok(BoolV(changed))

SetReply_sent(changed, sent) == IF sent THEN Ok(BoolV(TRUE)) ELSE Err("SendFailed")

SetReply(changed, sent) == Ok(BoolV(TRUE))

---------------------------------------------------------------------------
(* Bookkeeping on calls *)

IsSetCall(t) == pc[t] # "idle" /\ req[t].path \in Mounts /\ req[t].method = "set"

Running(t) == pc[t] \notin {"idle", "done"}

\* set calls on node f whose handler is running
RunningSets(f) == {u \in Tasks : Running(u) /\ req[u].path = f /\ req[u].method = "set"}

\* the signals emitted on node f so far
NodeSignals(f) == SelectSeq(signals, LAMBDA s : s.path = f)

\* The handler of task t returns res.
Finish(t, res) ==
    /\ pc' = [pc EXCEPT ![t] = "done"]
    /\ result' = [result EXCEPT ![t] = res]
    /\ lastDone' =
         IF req[t].method = "set"
         THEN [lastDone EXCEPT ![req[t].path] =
                  IF solo[t] THEN <<"call", req[t].param, before[t], mark[t]>>
                  ELSE NoCall]
         ELSE lastDone

---------------------------------------------------------------------------
Init ==
    /\ number = 0
    /\ text = Mem("")
    /\ readers = {}
    /\ writer = NoTask
    /\ signals = <<>>
    /\ calls = 0
    /\ pc = [t \in Tasks |-> "idle"]
    /\ req = [t \in Tasks |-> NoReq]
    /\ result = [t \in Tasks |-> NoResult]
    /\ old = [t \in Tasks |-> NullV]
    /\ solo = [t \in Tasks |-> FALSE]
    /\ before = [t \in Tasks |-> NullV]
    /\ mark = [t \in Tasks |-> 0]
    /\ pred = [t \in Tasks |-> NoCall]
    /\ lastDone = [f \in Mounts |-> NoCall]
    /\ written = [f \in Mounts |->
                    IF f = NUMBER_MOUNT THEN {IntV(0)} ELSE {StrV("")}]
    /\ seen = [t \in Tasks |-> NullV]
    /\ lastLock = NoCall

---------------------------------------------------------------------------
(* Dispatch of a request to a free task *)

Entry(r) ==
    IF r.path = NUMBER_MOUNT
    THEN (IF r.method = "get" THEN "ng_load" ELSE "ns_load")
    ELSE (IF r.method = "get" THEN "tg_read" ELSE "ts_read")

Stored(f) == IF f = NUMBER_MOUNT THEN IntV(number) ELSE StrV(ReadString(text))

Dispatch(t, r) ==
    /\ pc[t] = "idle"
    /\ calls < MaxCalls
    /\ calls' = calls + 1
    /\ req' = [req EXCEPT ![t] = r]
    /\ IF Resolve(r) = "invoke"
       THEN /\ pc' = [pc EXCEPT ![t] = Entry(r)]
            /\ result' = [result EXCEPT ![t] = NoResult]
       ELSE /\ pc' = [pc EXCEPT ![t] = "done"]
            /\ result' = [result EXCEPT ![t] = Err(Resolve(r))]
    /\ IF Resolve(r) = "invoke" /\ r.method = "set"
       THEN /\ solo' = [u \in Tasks |->
                          IF u = t THEN RunningSets(r.path) = {}
                          ELSE IF IsSetCall(u) /\ req[u].path = r.path THEN FALSE
                          ELSE solo[u]]
            /\ before' = [before EXCEPT ![t] = Stored(r.path)]
            /\ mark' = [mark EXCEPT ![t] = Len(NodeSignals(r.path))]
            /\ pred' = [pred EXCEPT ![t] =
                           IF RunningSets(r.path) = {} THEN lastDone[r.path] ELSE NoCall]
       ELSE /\ solo' = [solo EXCEPT ![t] = FALSE]
            /\ before' = [before EXCEPT ![t] = NullV]
            /\ mark' = [mark EXCEPT ![t] = 0]
            /\ pred' = [pred EXCEPT ![t] = NoCall]
    /\ old' = [old EXCEPT ![t] = NullV]
    /\ UNCHANGED <<number, text, readers, writer, signals, lastDone, written>>
    /\ seen' = [seen EXCEPT ![t] = NullV]
    /\ UNCHANGED lastLock

\* The caller has its answer; the task is free again.
Reply(t) ==
    /\ pc[t] = "done"
    /\ pc' = [pc EXCEPT ![t] = "idle"]
    /\ req' = [req EXCEPT ![t] = NoReq]
    /\ result' = [result EXCEPT ![t] = NoResult]
    /\ old' = [old EXCEPT ![t] = NullV]
    /\ solo' = [solo EXCEPT ![t] = FALSE]
    /\ before' = [before EXCEPT ![t] = NullV]
    /\ mark' = [mark EXCEPT ![t] = 0]
    /\ pred' = [pred EXCEPT ![t] = NoCall]
    /\ UNCHANGED <<number, text, readers, writer, signals, calls, lastDone, written>>
    /\ seen' = [seen EXCEPT ![t] = NullV]
    /\ UNCHANGED lastLock

---------------------------------------------------------------------------
(* number_node_handler *)

\* "get": app_state.number.load(SeqCst)
NumberGet(t) ==
    /\ pc[t] = "ng_load"
    /\ Finish(t, Ok(IntV(number)))
    /\ UNCHANGED <<number, text, readers, writer, signals, calls, req,
                   old, solo, before, mark, pred, written>>
    /\ UNCHANGED raceVars

\* "set": if app_state.number.load(SeqCst) != param
NumberSetLoad(t) ==
    /\ pc[t] = "ns_load"
    /\ IF NumberDiffers(number, req[t].param[2])
       THEN /\ pc' = [pc EXCEPT ![t] = "ns_store"]
            /\ UNCHANGED <<result, lastDone>>
       ELSE Finish(t, SetReply(FALSE, FALSE))
    /\ UNCHANGED <<number, text, readers, writer, signals, calls, req,
                   old, solo, before, mark, pred, written>>
    /\ seen' = [seen EXCEPT ![t] = IntV(number)]
    /\ UNCHANGED lastLock

\* "set": app_state.number.store(param, SeqCst)
NumberSetStore(t) ==
    /\ pc[t] = "ns_store"
    /\ number' = StoreValue(req[t].param[2], number)
    /\ old' = [old EXCEPT ![t] = IntV(number)]
    /\ written' = [written EXCEPT ![NUMBER_MOUNT] = @ \cup {req[t].param}]
    /\ pc' = [pc EXCEPT ![t] = "ns_send"]
    /\ UNCHANGED <<text, readers, writer, signals, calls, req, result,
                   solo, before, mark, pred, lastDone>>
    /\ UNCHANGED raceVars

\* "set": let _ = client_cmd_tx.send_message(sigchng); Some(Ok(true.into()))
NumberSetSendOn(t, c) ==
    /\ pc[t] = "ns_send"
    /\ signals' = Append(signals, Signal(NUMBER_MOUNT, req[t].param, old[t], seen[t], c))
    /\ Finish(t, SetReply(TRUE, SendOk(c)))
    /\ UNCHANGED <<number, text, readers, writer, calls, req,
                   old, solo, before, mark, pred, written>>
    /\ UNCHANGED raceVars

---------------------------------------------------------------------------
(* text_node_handler *)

\* "get": app_state.text.read().await
TextGetRead(t) ==
    /\ pc[t] = "tg_read"
    /\ CanRead(writer, readers)
    /\ readers' = readers \cup {t}
    /\ pc' = [pc EXCEPT ![t] = "tg_copy"]
    /\ UNCHANGED <<number, text, writer, signals, calls, req, result,
                   old, solo, before, mark, pred, lastDone, written>>
    /\ UNCHANGED raceVars

\* "get": Some(Ok(s.into())); the read guard is dropped at the end of the block
TextGetCopy(t) ==
    /\ pc[t] = "tg_copy"
    /\ readers' = ReadersAfterGet(readers, t)
    /\ Finish(t, Ok(StrV(ReadString(text))))
    /\ UNCHANGED <<number, text, writer, signals, calls, req,
                   old, solo, before, mark, pred, written>>
    /\ UNCHANGED raceVars

\* "set": app_state.text.read().await
TextSetRead(t) ==
    /\ pc[t] = "ts_read"
    /\ CanRead(writer, readers)
    /\ readers' = readers \cup {t}
    /\ pc' = [pc EXCEPT ![t] = "ts_cmp"]
    /\ UNCHANGED <<number, text, writer, signals, calls, req, result,
                   old, solo, before, mark, pred, lastDone, written>>
    /\ UNCHANGED raceVars

\* "set": if &*guard != &param; the read guard is dropped with the condition
TextSetCompare(t) ==
    /\ pc[t] = "ts_cmp"
    /\ readers' = ReadersAfterCompare(readers, t)
    /\ IF TextDiffers(ReadString(text), req[t].param[2])
       THEN /\ pc' = [pc EXCEPT ![t] = "ts_write"]
            /\ UNCHANGED <<result, lastDone>>
       ELSE Finish(t, SetReply(FALSE, FALSE))
    /\ UNCHANGED <<number, text, writer, signals, calls, req,
                   old, solo, before, mark, pred, written>>
    /\ seen' = [seen EXCEPT ![t] = StrV(ReadString(text))]
    /\ UNCHANGED lastLock

\* "set": let mut writer = app_state.text.write().await
TextSetWrite(t) ==
    /\ pc[t] = "ts_write"
    /\ CanWrite(writer, readers)
    /\ writer' = t
    /\ pc' = [pc EXCEPT ![t] = "ts_lo"]
    /\ UNCHANGED <<number, text, readers, signals, calls, req, result,
                   old, solo, before, mark, pred, lastDone, written>>
    /\ lastLock' = req[t].param
    /\ UNCHANGED seen

\* "set": *writer = param.clone(), first part
TextSetStoreLo(t) ==
    /\ pc[t] = "ts_lo"
    /\ text' = [text EXCEPT !.lo = StoreValue(req[t].param[2], @)]
    /\ old' = [old EXCEPT ![t] = StrV(ReadString(text))]
    /\ pc' = [pc EXCEPT ![t] = "ts_hi"]
    /\ UNCHANGED <<number, readers, writer, signals, calls, req, result,
                   solo, before, mark, pred, lastDone, written>>
    /\ UNCHANGED raceVars

\* "set": *writer = param.clone(), second part
TextSetStoreHi(t) ==
    /\ pc[t] = "ts_hi"
    /\ text' = [text EXCEPT !.hi = StoreValue(req[t].param[2], @)]
    /\ written' = [written EXCEPT ![TEXT_MOUNT] = @ \cup {req[t].param}]
    /\ writer' = GuardAfterStore(t)
    /\ pc' = [pc EXCEPT ![t] = "ts_send"]
    /\ UNCHANGED <<number, readers, signals, calls, req, result,
                   old, solo, before, mark, pred, lastDone>>
    /\ UNCHANGED raceVars

\* "set": let _ = client_cmd_tx.send_message(sigchng); the write guard is dropped
\* at the end of the block; Some(Ok(true.into()))
TextSetSendOn(t, c) ==
    /\ pc[t] = "ts_send"
    /\ signals' = Append(signals, Signal(TEXT_MOUNT, req[t].param, old[t], seen[t], c))
    /\ writer' = IF writer = t THEN NoTask ELSE writer
    /\ Finish(t, SetReply(TRUE, SendOk(c)))
    /\ UNCHANGED <<number, text, readers, calls, req,
                   old, solo, before, mark, pred, written>>
    /\ UNCHANGED raceVars

---------------------------------------------------------------------------
Step(t) ==
    \/ NumberGet(t)
    \/ NumberSetLoad(t)
    \/ NumberSetStore(t)
    \/ \E c \in ChanStates : NumberSetSendOn(t, c)
    \/ TextGetRead(t)
    \/ TextGetCopy(t)
    \/ TextSetRead(t)
    \/ TextSetCompare(t)
    \/ TextSetWrite(t)
    \/ TextSetStoreLo(t)
    \/ TextSetStoreHi(t)
    \/ \E c \in ChanStates : TextSetSendOn(t, c)

Next ==
    \/ \E t \in Tasks : \E r \in Requests : Dispatch(t, r)
    \/ \E t \in Tasks : Step(t)
    \/ \E t \in Tasks : Reply(t)

Spec == Init /\ [][Next]_vars

\* The executor runs every task that can take a step.
FairSpec == Spec /\ \A t \in Tasks : WF_vars(Step(t))

---------------------------------------------------------------------------
(* Vocabulary of the properties *)

\* A set call on node f that has returned, ran with no other set on f beside it,
\* and was dispatched after a set on f that also ran alone had returned, with no
\* set on f between the two. pred[t] is <<"call", param, before, mark>> of the
\* earlier call.
BackToBack(t, f) ==
    /\ pc[t] = "done"
    /\ req[t].path = f
    /\ req[t].method = "set"
    /\ solo[t]
    /\ pred[t] # NoCall

\* the signals emitted on node f after the first m
Since(f, m) == SubSeq(NodeSignals(f), m + 1, Len(NodeSignals(f)))

BelowWrite(a) == AccessRank(a) < AccessRank("Write")

\* this step hands a request to task t
Dispatches(t) == pc[t] = "idle" /\ pc'[t] # "idle"

\* this step changes neither field and emits nothing
NoEffect == number' = number /\ text' = text /\ signals' = signals

\* task t has compared the stored value with its parameter, found them different,
\* and has not completed its store yet
InGap(t, f) ==
    /\ req[t].path = f
    /\ pc[t] \in (IF f = NUMBER_MOUNT THEN {"ns_store"} ELSE {"ts_write", "ts_lo", "ts_hi"})

\* this step is task u's read-for-compare or (part of) its store on node f
ComparesOrStores(u, f) ==
    /\ req[u].path = f
    /\ pc[u] \in (IF f = NUMBER_MOUNT THEN {"ns_load", "ns_store"}
                  ELSE {"ts_cmp", "ts_lo", "ts_hi"})
    /\ pc'[u] # pc[u]

---------------------------------------------------------------------------
(* C1: every emitted chng signal reports a real change: the value stored in   *)
(* the field immediately before the emitting call's write differed from the   *)
(* signal's payload.                                                          *)
C1_SignalOnlyOnChange ==
    \A i \in 1..Len(signals) : signals[i].prev # signals[i].value

(* C2: between a set call's read-for-compare and its store, no other set call *)
(* on the same field performs its read-for-compare or its store.              *)
C2_CompareAndWriteAtomic ==
    [][\A f \in Mounts : \A t \in Tasks : \A u \in Tasks \ {t} :
          InGap(t, f) => ~ComparesOrStores(u, f)]_vars

(* C3, as claimed: for v1 # v2, set_number(v1) and then set_number(v2), run   *)
(* back to back from any stored number, emit exactly the two signals v1, v2   *)
(* in that order, and the stored number is v2 afterwards.                     *)
C3_TwoSignalsFromAnyState ==
    \A t \in Tasks :
        (BackToBack(t, NUMBER_MOUNT) /\ pred[t][2] # req[t].param)
        => LET s == Since(NUMBER_MOUNT, pred[t][4])
           IN  /\ Len(s) = 2
               /\ s[1].value = pred[t][2]
               /\ s[2].value = req[t].param
               /\ IntV(number) = req[t].param

(* C3, amended: for v1 # v2 and a stored number other than v1, set_number(v1) *)
(* and then set_number(v2), run back to back, emit exactly the two signals    *)
(* v1, v2 in that order, and the stored number is v2 afterwards.              *)
C3_TwoSignalsInOrder ==
    \A t \in Tasks :
        (/\ BackToBack(t, NUMBER_MOUNT)
         /\ pred[t][2] # req[t].param
         /\ pred[t][3] # pred[t][2])
        => LET s == Since(NUMBER_MOUNT, pred[t][4])
           IN  /\ Len(s) = 2
               /\ s[1].value = pred[t][2] /\ s[1].path = NUMBER_MOUNT
               /\ s[2].value = req[t].param /\ s[2].path = NUMBER_MOUNT
               /\ IntV(number) = req[t].param

C3_Witness ==
    \E t \in Tasks :
        /\ BackToBack(t, NUMBER_MOUNT)
        /\ pred[t][2] # req[t].param
        /\ pred[t][3] # pred[t][2]
        /\ Len(NodeSignals(NUMBER_MOUNT)) = 2

(* C4, as claimed: set(v) twice back to back on one field, from any stored    *)
(* value, emits exactly one signal: the first call emits it, the second emits *)
(* none and returns true.                                                     *)
C4_ExactlyOneFromAnyState ==
    \A f \in Mounts : \A t \in Tasks :
        (BackToBack(t, f) /\ pred[t][2] = req[t].param)
        => /\ mark[t] - pred[t][4] = 1
           /\ Len(NodeSignals(f)) - mark[t] = 0
           /\ result[t] = Ok(BoolV(TRUE))

(* C4, amended: set(v) twice back to back on one field emits exactly one      *)
(* signal (payload v, by the first call) when the stored value differed from  *)
(* v before the first call, and none when it was v already; in both cases the *)
(* second call emits none and returns true.                                   *)
C4_SecondSetIsSilent ==
    \A f \in Mounts : \A t \in Tasks :
        (BackToBack(t, f) /\ pred[t][2] = req[t].param)
        => /\ mark[t] - pred[t][4] = (IF pred[t][3] = pred[t][2] THEN 0 ELSE 1)
           /\ \A i \in 1..Len(Since(f, pred[t][4])) :
                  Since(f, pred[t][4])[i].value = req[t].param
           /\ Len(NodeSignals(f)) - mark[t] = 0
           /\ result[t] = Ok(BoolV(TRUE))

C4_Witness ==
    \E f \in Mounts : \E t \in Tasks :
        /\ BackToBack(t, f)
        /\ pred[t][2] = req[t].param
        /\ pred[t][3] # pred[t][2]
        /\ Len(Since(f, pred[t][4])) = 1

---------------------------------------------------------------------------
\* p is no signed 32-bit integer
NotI32(p) == p[1] # "int"

\* p is of the type the set method of node f takes
ParamFits(f, p) == IF f = NUMBER_MOUNT THEN p[1] = "int" ELSE p[1] = "str"

Rejected(t, e) == pc[t] = "done" /\ result[t] = Err(e)

(* C5: a set call on state/number or state/text made with a capability below  *)
(* Write is answered PermissionDenied, whatever else runs; its dispatch leaves *)
(* both fields unchanged and emits no signal, and its handler never runs.      *)
C5_SetBelowWriteDenied ==
    /\ [](\A t \in Tasks :
            (IsSetCall(t) /\ BelowWrite(req[t].access))
            => Rejected(t, "PermissionDenied"))
    /\ [][\A t \in Tasks :
            (/\ Dispatches(t)
             /\ req'[t].path \in {NUMBER_MOUNT, TEXT_MOUNT}
             /\ req'[t].method = "set"
             /\ BelowWrite(req'[t].access))
            => NoEffect]_vars

C5_Witness ==
    \E t \in Tasks : \E u \in Tasks \ {t} :
        /\ IsSetCall(t) /\ BelowWrite(req[t].access)
        /\ Rejected(t, "PermissionDenied")
        /\ IsSetCall(u) /\ pc[u] \in {"ns_store", "ts_lo"}

(* C6, as claimed: a set call on state/number whose parameter is no i32 is     *)
(* answered InvalidParameter, by whomever it is made.                          *)
C6_BadParamFromAnyCaller ==
    \A t \in Tasks :
        (IsSetCall(t) /\ req[t].path = NUMBER_MOUNT /\ NotI32(req[t].param))
        => Rejected(t, "InvalidParameter")

(* C6, amended: a set call on state/number made with at least Write capability *)
(* whose parameter is no i32 is answered InvalidParameter; its dispatch leaves *)
(* number and text unchanged and emits no signal, and the handler body is      *)
(* never entered.                                                              *)
C6_BadParamRejected ==
    /\ [](\A t \in Tasks :
            (/\ IsSetCall(t) /\ req[t].path = NUMBER_MOUNT
             /\ ~BelowWrite(req[t].access)
             /\ NotI32(req[t].param))
            => Rejected(t, "InvalidParameter"))
    /\ [][\A t \in Tasks :
            (/\ Dispatches(t)
             /\ req'[t].path = NUMBER_MOUNT
             /\ req'[t].method = "set"
             /\ ~BelowWrite(req'[t].access)
             /\ NotI32(req'[t].param))
            => NoEffect]_vars

C6_Witness ==
    \E t \in Tasks : \E u \in Tasks \ {t} :
        /\ IsSetCall(t) /\ req[t].path = NUMBER_MOUNT
        /\ ~BelowWrite(req[t].access)
        /\ req[t].param = WideV(1)
        /\ Rejected(t, "InvalidParameter")
        /\ IsSetCall(u) /\ req[u].path = NUMBER_MOUNT
        /\ req[u].param[1] = "str"
        /\ ~BelowWrite(req[u].access)
        /\ Rejected(u, "InvalidParameter")

(* C7: a call to a path that is not mounted, and a call to a mounted node with *)
(* a method other than get or set, is answered MethodNotFound; its dispatch    *)
(* leaves the fields unchanged and emits no signal, and no handler runs.       *)
C7_UnresolvableNotFound ==
    /\ [](\A t \in Tasks :
            (/\ pc[t] # "idle"
             /\ \/ req[t].path \notin {NUMBER_MOUNT, TEXT_MOUNT}
                \/ req[t].method \notin {"get", "set"})
            => Rejected(t, "MethodNotFound"))
    /\ [][\A t \in Tasks :
            (/\ Dispatches(t)
             /\ \/ req'[t].path \notin {NUMBER_MOUNT, TEXT_MOUNT}
                \/ req'[t].method \notin {"get", "set"})
            => NoEffect]_vars

C7_Witness ==
    \E t \in Tasks : \E u \in Tasks \ {t} :
        /\ req[t].path \notin {NUMBER_MOUNT, TEXT_MOUNT}
        /\ Rejected(t, "MethodNotFound")
        /\ req[u].path \in {NUMBER_MOUNT, TEXT_MOUNT}
        /\ req[u].method = "reset"
        /\ Rejected(u, "MethodNotFound")

(* C8: the send of the signal never holds the setter up and never changes its  *)
(* answer: a set call that found a difference can always take its send step,   *)
(* whatever the state of the outbound channel, and once it has returned it has *)
(* stored its parameter and returned true, whether the send succeeded or not.  *)
C8_SendNeverAffectsSetter ==
    \A t \in Tasks :
        /\ pc[t] = "ns_send" => \A c \in ChanStates : ENABLED NumberSetSendOn(t, c)
        /\ pc[t] = "ts_send" => \A c \in ChanStates : ENABLED TextSetSendOn(t, c)
        /\ (IsSetCall(t) /\ pc[t] = "done" /\ old[t] # NullV)
           => /\ result[t] = Ok(BoolV(TRUE))
              /\ req[t].param \in written[req[t].path]

C8_Witness ==
    \E t \in Tasks :
        /\ calls = 1
        /\ IsSetCall(t) /\ pc[t] = "done" /\ old[t] # NullV
        /\ Len(signals) = 1
        /\ ~signals[1].ok
        /\ Stored(req[t].path) = req[t].param
        /\ result[t] = Ok(BoolV(TRUE))

(* C9: every set call made with at least Write capability and a parameter of   *)
(* the node's type returns true, whether or not it changed the stored value or *)
(* emitted a signal; until it returns it is running, never answered otherwise. *)
C9_SetReturnsTrue ==
    \A t \in Tasks :
        (/\ IsSetCall(t)
         /\ ~BelowWrite(req[t].access)
         /\ ParamFits(req[t].path, req[t].param))
        => IF pc[t] = "done" THEN result[t] = Ok(BoolV(TRUE))
           ELSE result[t] = NoResult

C9_Witness ==
    \E t \in Tasks : \E u \in Tasks \ {t} :
        /\ IsSetCall(t) /\ pc[t] = "done" /\ old[t] = NullV
        /\ result[t] = Ok(BoolV(TRUE))
        /\ IsSetCall(u) /\ pc[u] = "done" /\ old[u] # NullV
        /\ result[u] = Ok(BoolV(TRUE))

(* C10: the stored number, the stored text whenever no write is under way, and *)
(* every value a get has returned, is the initial value or the whole parameter *)
(* of a set call on that field whose store has happened.                       *)
C10_NoTornValues ==
    /\ IntV(number) \in written[NUMBER_MOUNT]
    /\ writer = NoTask
       => text.lo = text.hi /\ StrV(text.lo) \in written[TEXT_MOUNT]
    /\ \A t \in Tasks :
          (pc[t] = "done" /\ req[t].method = "get" /\ result[t][1] = "ok")
          => result[t][2] \in written[req[t].path]

C10_Witness ==
    \E t \in Tasks : \E u \in Tasks \ {t} :
        /\ pc[t] = "done" /\ req[t].method = "get" /\ req[t].path = TEXT_MOUNT
        /\ result[t] = Ok(StrV(""))
        /\ pc[u] = "ts_hi"
        /\ text.lo # text.hi

---------------------------------------------------------------------------
\* tasks holding a read guard / the write guard, by their position in the handler
ReadHolders  == {t \in Tasks : pc[t] \in {"tg_copy", "ts_cmp"}}
WriteHolders == {t \in Tasks : pc[t] \in {"ts_lo", "ts_hi", "ts_send"}}

\* tasks waiting for the lock
LockWaiters == {t \in Tasks : pc[t] \in {"tg_read", "ts_read", "ts_write"}}

(* C11: under fair scheduling every dispatched request completes: no text get  *)
(* or text set waits for the reader-writer lock forever.                       *)
C11_EveryRequestCompletes ==
    \A t \in Tasks : (pc[t] # "idle") ~> (pc[t] = "done")

C11_Witness ==
    \E t \in Tasks : \E u \in Tasks \ {t} :
        /\ pc[t] = "ts_write" /\ pc[u] = "tg_copy"
        /\ ~ENABLED Step(t)

---------------------------------------------------------------------------
IsGetCall(t) == pc[t] # "idle" /\ req[t].path \in Mounts /\ req[t].method = "get"

\* this step is the dispatch of, or a handler step of, the call of task t
CallStep(t) == pc'[t] \notin {pc[t], "idle"}

\* this step belongs to a get call made with at least Read capability
GetStep(t) ==
    /\ CallStep(t)
    /\ req'[t].path \in Mounts
    /\ req'[t].method = "get"
    /\ AccessRank(req'[t].access) >= AccessRank("Read")

(* C14: a get call on state/number or state/text made with at least Read       *)
(* capability returns a success value, never an error, and none of its steps   *)
(* changes a stored field or emits a signal.                                   *)
C14_GetIsPureAndSucceeds ==
    /\ [](\A t \in Tasks :
            (/\ IsGetCall(t)
             /\ AccessRank(req[t].access) >= AccessRank("Read")
             /\ pc[t] = "done")
            => /\ result[t][1] = "ok"
               /\ result[t][2][1] = (IF req[t].path = NUMBER_MOUNT THEN "int" ELSE "str"))
    /\ [][\A t \in Tasks : GetStep(t) => NoEffect]_vars

C14_Witness ==
    \E t \in Tasks : \E u \in Tasks \ {t} :
        /\ IsGetCall(t) /\ req[t].path = TEXT_MOUNT /\ req[t].access = "Read"
        /\ pc[t] = "done" /\ result[t] = Ok(StrV("a"))
        /\ IsSetCall(u) /\ pc[u] = "done" /\ req[u].param = StrV("a")
        /\ Len(signals) = 1

(* C15: while a text set holds the write acquisition, no call holds a read     *)
(* acquisition and no other call holds the write acquisition; while only       *)
(* readers hold the lock and no writer is waiting, a further reader (a get or  *)
(* the compare step of a set) can acquire it too.                              *)
C15_ReaderWriterExclusion ==
    /\ readers = ReadHolders
    /\ WriteHolders = (IF writer = NoTask THEN {} ELSE {writer})
    /\ WriteHolders # {} => ReadHolders = {}
    /\ Cardinality(WriteHolders) <= 1
    /\ \A u \in Tasks :
          (/\ ReadHolders # {}
           /\ \A t \in Tasks : pc[t] # "ts_write"
           /\ pc[u] \in {"tg_read", "ts_read"})
          => ENABLED (TextGetRead(u) \/ TextSetRead(u))

C15_Witness ==
    \E t \in Tasks : \E u \in Tasks \ {t} :
        /\ writer = t /\ pc[t] = "ts_hi"
        /\ pc[u] \in {"tg_read", "ts_read", "ts_write"}
        /\ ~ENABLED Step(u)

\* every send on node f so far was accepted by the channel
AllSent(f) == \A i \in 1..Len(NodeSignals(f)) : NodeSignals(f)[i].ok

\* the payload of the most recent signal of node f, or the initial value
LastPayload(f) ==
    IF NodeSignals(f) = <<>>
    THEN (IF f = NUMBER_MOUNT THEN IntV(0) ELSE StrV(""))
    ELSE NodeSignals(f)[Len(NodeSignals(f))].value

(* C16: whenever no set call on state/number is in progress and every send was *)
(* accepted, the stored number equals the payload of the most recent           *)
(* state/number signal, or 0 if there is none.                                 *)
C16_NumberMatchesLastSignal ==
    (RunningSets(NUMBER_MOUNT) = {} /\ AllSent(NUMBER_MOUNT))
    => IntV(number) = LastPayload(NUMBER_MOUNT)

(* C17: a text set emits its signal while it holds the write acquisition, and  *)
(* whenever no call holds the write acquisition and every send was accepted,   *)
(* the stored text equals the payload of the most recent state/text signal, or *)
(* the empty string if there is none.                                          *)
C17_TextMatchesLastSignal ==
    /\ \A t \in Tasks : pc[t] = "ts_send" => writer = t
    /\ (writer = NoTask /\ AllSent(TEXT_MOUNT))
       => StrV(ReadString(text)) = LastPayload(TEXT_MOUNT)

C17_Witness ==
    /\ writer = NoTask
    /\ Len(NodeSignals(TEXT_MOUNT)) = 2
    /\ AllSent(TEXT_MOUNT)
    /\ NodeSignals(TEXT_MOUNT)[1].value # NodeSignals(TEXT_MOUNT)[2].value
    /\ NodeSignals(TEXT_MOUNT)[2].prev = NodeSignals(TEXT_MOUNT)[1].value
    /\ StrV(ReadString(text)) = NodeSignals(TEXT_MOUNT)[2].value
    /\ \A t \in Tasks : pc[t] = "done" /\ ~solo[t]

\* task t has requested or holds the write acquisition
WantsWrite(t) == pc[t] \in {"ts_write", "ts_lo", "ts_hi", "ts_send"}

(* C18: a text set never holds a read acquisition while it requests or holds   *)
(* the write acquisition, so text sets waiting for the write acquisition never *)
(* block each other: when nothing else holds the lock, one of them gets it.    *)
C18_ReadReleasedBeforeWrite ==
    /\ \A t \in Tasks : WantsWrite(t) => t \notin readers
    /\ \A t \in Tasks :
          (pc[t] = "ts_write" /\ WriteHolders = {} /\ ReadHolders = {})
          => ENABLED TextSetWrite(t)

C18_Witness ==
    \E t \in Tasks : \E u \in Tasks \ {t} :
        /\ pc[t] = "ts_write" /\ pc[u] = "ts_write"
        /\ readers = {}
        /\ ENABLED TextSetWrite(t)

\* the node other than f
OtherNode(f) == IF f = NUMBER_MOUNT THEN TEXT_MOUNT ELSE NUMBER_MOUNT

(* C19: a call on one node never changes the other node's field and never      *)
(* emits a signal on the other node's path, and every signal a call emits has  *)
(* name chng, the mount path of the node the call is on, and the parameter of  *)
(* that set call as its payload.                                               *)
C19_NodesIndependentSignalsFaithful ==
    [][\A t \in Tasks : \A f \in Mounts :
         (CallStep(t) /\ req'[t].path = f)
         => /\ Stored(OtherNode(f))' = Stored(OtherNode(f))
            /\ NodeSignals(OtherNode(f))' = NodeSignals(OtherNode(f))
            /\ signals' # signals
               => /\ Len(signals') = Len(signals) + 1
                  /\ SubSeq(signals', 1, Len(signals)) = signals
                  /\ req[t].method = "set"
                  /\ signals'[Len(signals')].name = "chng"
                  /\ signals'[Len(signals')].path = req[t].path
                  /\ signals'[Len(signals')].value = req[t].param]_vars

C19_Witness ==
    /\ Len(NodeSignals(NUMBER_MOUNT)) = 1
    /\ Len(NodeSignals(TEXT_MOUNT)) = 1
    /\ NodeSignals(NUMBER_MOUNT)[1].value = IntV(2)
    /\ NodeSignals(TEXT_MOUNT)[1].value = StrV("b")
    /\ number = 2 /\ ReadString(text) = "b"

---------------------------------------------------------------------------
(* C12: when text sets race, the text stored once no call holds the write      *)
(* acquisition (in particular once all of them have completed) is the          *)
(* parameter of the set that acquired the write acquisition last.              *)
C12_LastLockWins ==
    (writer = NoTask /\ lastLock # NoCall) => StrV(ReadString(text)) = lastLock

C12_Witness ==
    /\ \A t \in Tasks : pc[t] = "done" /\ IsSetCall(t) /\ req[t].path = TEXT_MOUNT
    /\ Len(NodeSignals(TEXT_MOUNT)) = 2
    /\ NodeSignals(TEXT_MOUNT)[1].saw = NodeSignals(TEXT_MOUNT)[2].saw
    /\ NodeSignals(TEXT_MOUNT)[1].value # NodeSignals(TEXT_MOUNT)[2].value
    /\ lastLock = NodeSignals(TEXT_MOUNT)[2].value
    /\ StrV(ReadString(text)) = lastLock

\* the number of signals the calls set(p); set(q) emit when run one after the
\* other on a node that stores x
SerialSignals(x, p, q) == (IF p # x THEN 1 ELSE 0) + (IF q # p THEN 1 ELSE 0)

\* i and i+1 are the signals of two text sets that raced with each other only:
\* the first compared with the text it then overwrote, the second compared with
\* that same text or with the text the first one stored
RacingPairs ==
    {i \in 1..(Len(NodeSignals(TEXT_MOUNT)) - 1) :
        /\ NodeSignals(TEXT_MOUNT)[i].saw = NodeSignals(TEXT_MOUNT)[i].prev
        /\ NodeSignals(TEXT_MOUNT)[i + 1].saw \in
              {NodeSignals(TEXT_MOUNT)[i].prev, NodeSignals(TEXT_MOUNT)[i].value}}

(* C13: two text sets that both emitted a signal while racing with each other  *)
(* emit at most one signal more than the same two calls run one after the      *)
(* other in the order of their write acquisitions, and exactly as many when    *)
(* the second compared after the first had stored.                             *)
C13_AtMostOneSpuriousSignal ==
    \A i \in RacingPairs :
        /\ NodeSignals(TEXT_MOUNT)[i + 1].prev = NodeSignals(TEXT_MOUNT)[i].value
        /\ 2 <= 1 + SerialSignals(NodeSignals(TEXT_MOUNT)[i].prev,
                                  NodeSignals(TEXT_MOUNT)[i].value,
                                  NodeSignals(TEXT_MOUNT)[i + 1].value)
        /\ NodeSignals(TEXT_MOUNT)[i + 1].saw = NodeSignals(TEXT_MOUNT)[i].value
           => 2 = SerialSignals(NodeSignals(TEXT_MOUNT)[i].prev,
                                NodeSignals(TEXT_MOUNT)[i].value,
                                NodeSignals(TEXT_MOUNT)[i + 1].value)

C13_Witness ==
    /\ 1 \in RacingPairs
    /\ NodeSignals(TEXT_MOUNT)[1].saw = NodeSignals(TEXT_MOUNT)[2].saw
    /\ NodeSignals(TEXT_MOUNT)[1].value = NodeSignals(TEXT_MOUNT)[2].value
    /\ SerialSignals(NodeSignals(TEXT_MOUNT)[1].prev,
                     NodeSignals(TEXT_MOUNT)[1].value,
                     NodeSignals(TEXT_MOUNT)[2].value) = 1

====
